---- MODULE Spec2Model ----
(***************************************************************************)
(* Model of the customer importer: validateEmail and                       *)
(* CustomerImporter.ImportDomainData (package customerimporter).           *)
(*                                                                         *)
(* A string is a sequence of one-character strings.  A CSV file is the     *)
(* sequence of raw records encoding/csv meets in it: each one either       *)
(* parses into a record with n fields, or is structurally malformed (bare  *)
(* or unterminated quote).  Of a parsed record the code reads only its     *)
(* field count and the field at emailColumnIndex, so a record is           *)
(* [n, email]; email is the empty string when the record has no field at   *)
(* that index.                                                             *)
(***************************************************************************)
EXTENDS Integers, Sequences, FiniteSets, TLC

VARIABLES
    file,            \* what is stored at ci.path: [exists, lines]
    fileOpen,        \* the *os.File handle of the running call is open
    pos,             \* number of raw records csvReader has consumed
    fieldsPerRecord, \* csvReader.FieldsPerRecord (0 until the first record)
    data,            \* map[string]uint64 of the running call
    rowCount,        \* rowCount of the running call
    pc,              \* position of the running call
    result,          \* returned []DomainData: [nil, data]
    err,             \* returned error
    prev,            \* outcome of the previous call on the same importer
    email,           \* argument of a direct validateEmail call
    vout,            \* what that validateEmail call returned
    vpc,             \* position of that call
    out,             \* the -out flag and what the file system holds and
                     \* allows at that path: [given, creatable, writable, before]
    outFile,         \* the file at the -out path: [exists, lines]
    stdout,          \* the lines written to standard output
    saveErr,         \* what ExportData returned to main
    exitCode         \* exit status of the process, -1 while it runs

vars == <<file, fileOpen, pos, fieldsPerRecord, data, rowCount, pc, result,
          err, prev, email, vout, vpc, out, outFile, stdout, saveErr,
          exitCode>>

importVars == <<file, fileOpen, pos, fieldsPerRecord, data, rowCount, pc,
                result, err, prev>>

validateVars == <<email, vout, vpc>>

cliVars == <<out, outFile, stdout, saveErr, exitCode>>

(***************************************************************************)
(* Bounds and input samples                                                *)
(***************************************************************************)
MaxRows == 3

MaxEmailLen == 5

MaxMainRows == 2

Alphabet == {"a", "B", " ", "@"}

FieldCounts == {2, 3, 5}

RowEmails ==
    { <<"a", "@", "B">>,
      <<" ", "B", "@", "a", " ">>,
      <<"a", "@", "a", " ", "B">>,
      <<"a", "B">>,
      <<"a", "@">> }

Strings(n) == UNION { [1..k -> Alphabet] : k \in 0..n }

(***************************************************************************)
(* Strings: package strings, cmp.Compare                                   *)
(***************************************************************************)
emailColumnIndex == 2

IsSpace(c) == c \in {" ", "\t", "\n", "\r"}

RECURSIVE TrimLeft(_)
TrimLeft(s) ==
    IF s = <<>> THEN <<>>
    ELSE IF IsSpace(Head(s)) THEN TrimLeft(Tail(s)) ELSE s

RECURSIVE TrimRight(_)
TrimRight(s) ==
    IF s = <<>> THEN <<>>
    ELSE IF IsSpace(s[Len(s)]) THEN TrimRight(SubSeq(s, 1, Len(s) - 1)) ELSE s

TrimSpace(s) == TrimRight(TrimLeft(s))

Contains(s, c) == \E i \in 1..Len(s) : s[i] = c

Index(s, c) ==
    IF Contains(s, c)
    THEN CHOOSE i \in 1..Len(s) : s[i] = c /\ \A j \in 1..(i - 1) : s[j] # c
    ELSE 0

Cut(s, sep) ==
    LET i == Index(s, sep) IN
    IF i = 0
    THEN [before |-> s, after |-> <<>>, found |-> FALSE]
    ELSE [before |-> SubSeq(s, 1, i - 1),
          after  |-> SubSeq(s, i + 1, Len(s)),
          found  |-> TRUE]

Code(c) ==
    CASE c = "\t" -> 9
      [] c = "\n" -> 10
      [] c = "\r" -> 13
      [] c = " "  -> 32
      [] c = "@"  -> 64
      [] c = "B"  -> 66
      [] c = "a"  -> 97

RECURSIVE Compare(_, _)
Compare(l, r) ==
    IF l = <<>> /\ r = <<>> THEN 0
    ELSE IF l = <<>> THEN -1
    ELSE IF r = <<>> THEN 1
    ELSE IF Code(Head(l)) < Code(Head(r)) THEN -1
    ELSE IF Code(Head(l)) > Code(Head(r)) THEN 1
    ELSE Compare(Tail(l), Tail(r))

(***************************************************************************)
(* validateEmail                                                           *)
(***************************************************************************)
ErrEmptyInput == "email address is empty"

ErrMissingSeparator == "invalid email format: missing '@' separator"

ErrEmptyLocalPart == "invalid email format: empty local part"

ErrEmptyDomain == "invalid email format: empty domain"

ErrMultipleSeparators == "invalid email format: multiple '@' symbols"

ValidateFail(msg) == [domain |-> <<>>, err |-> msg]

\* validateEmail returning the domain part as cut, not as trimmed
validateEmail_untrimmedDomain(rawEmail) ==
    LET e == TrimSpace(rawEmail) IN
    IF e = <<>> THEN ValidateFail(ErrEmptyInput)
    ELSE
      LET c == Cut(e, "@") IN
      IF ~c.found THEN ValidateFail(ErrMissingSeparator)
      ELSE IF TrimSpace(c.before) = <<>> THEN ValidateFail(ErrEmptyLocalPart)
      ELSE
        LET dom == TrimSpace(c.after) IN
        IF dom = <<>> THEN ValidateFail(ErrEmptyDomain)
        ELSE IF Contains(dom, "@") THEN ValidateFail(ErrMultipleSeparators)
        ELSE [domain |-> c.after, err |-> "nil"]

\* validateEmail without the check for a second '@'
validateEmail_noSecondAtCheck(rawEmail) ==
    LET e == TrimSpace(rawEmail) IN
    IF e = <<>> THEN ValidateFail(ErrEmptyInput)
    ELSE
      LET c == Cut(e, "@") IN
      IF ~c.found THEN ValidateFail(ErrMissingSeparator)
      ELSE IF TrimSpace(c.before) = <<>> THEN ValidateFail(ErrEmptyLocalPart)
      ELSE
        LET dom == TrimSpace(c.after) IN
        IF dom = <<>> THEN ValidateFail(ErrEmptyDomain)
        ELSE [domain |-> dom, err |-> "nil"]

\* validateEmail checking the domain part before the local part
validateEmail_domainCheckedFirst(rawEmail) ==
    LET e == TrimSpace(rawEmail) IN
    IF e = <<>> THEN ValidateFail(ErrEmptyInput)
    ELSE
      LET c == Cut(e, "@") IN
      IF ~c.found THEN ValidateFail(ErrMissingSeparator)
      ELSE
        LET dom == TrimSpace(c.after) IN
        IF dom = <<>> THEN ValidateFail(ErrEmptyDomain)
        ELSE IF Contains(dom, "@") THEN ValidateFail(ErrMultipleSeparators)
        ELSE IF TrimSpace(c.before) = <<>>
        THEN ValidateFail(ErrEmptyLocalPart)
        ELSE [domain |-> dom, err |-> "nil"]

validateEmail(rawEmail) ==
    LET e == TrimSpace(rawEmail) IN
    IF e = <<>> THEN ValidateFail(ErrEmptyInput)
    ELSE
      LET c == Cut(e, "@") IN
      IF ~c.found THEN ValidateFail(ErrMissingSeparator)
      ELSE IF TrimSpace(c.before) = <<>> THEN ValidateFail(ErrEmptyLocalPart)
      ELSE
        LET dom == TrimSpace(c.after) IN
        IF dom = <<>> THEN ValidateFail(ErrEmptyDomain)
        ELSE IF Contains(dom, "@") THEN ValidateFail(ErrMultipleSeparators)
        ELSE [domain |-> dom, err |-> "nil"]

(***************************************************************************)
(* The CSV file and encoding/csv's Reader                                  *)
(***************************************************************************)
Malformed == [ok |-> FALSE, n |-> 0, email |-> <<>>]

Rec(n, e) == [ok |-> TRUE, n |-> n, email |-> e]

Records ==
    { Rec(n, <<>>) : n \in { k \in FieldCounts : k <= emailColumnIndex } }
    \cup
    { Rec(n, e) : n \in { k \in FieldCounts : k > emailColumnIndex },
                  e \in RowEmails }

Lines == Records \cup {Malformed}

\* first records of the sampled files: header rows of 2, 3 and 5 columns, and
\* a first record that already is a customer row
HeaderSamples ==
    { Rec(2, <<>>), Rec(3, <<"a", "B">>), Rec(5, <<"a", "B">>),
      Rec(5, <<"a", "@", "B">>) }

RowSeqs == UNION { [1..k -> Lines] : k \in 0..MaxRows }

Files ==
    { [exists |-> FALSE, lines |-> <<>>], [exists |-> TRUE, lines |-> <<>>] }
    \cup
    { [exists |-> TRUE, lines |-> <<h>> \o rows] :
        h \in HeaderSamples \cup {Malformed}, rows \in RowSeqs }

NoErr == [kind |-> "nil", detail |-> "", line |-> 0, got |-> 0]

PathError == [kind |-> "PathError", detail |-> "", line |-> 0, got |-> 0]

EOF == [kind |-> "EOF", detail |-> "", line |-> 0, got |-> 0]

ParseError(ln) ==
    [kind |-> "ParseError", detail |-> "", line |-> ln, got |-> 0]

ErrFieldCount(ln) ==
    [kind |-> "ErrFieldCount", detail |-> "wrong number of fields",
     line |-> ln, got |-> 0]

InsufficientColumns(got) ==
    [kind |-> "InsufficientColumns",
     detail |-> "invalid CSV format: expected at least 3 columns",
     line |-> 0, got |-> got]

InvalidEmail(reason) ==
    [kind |-> "InvalidEmail", detail |-> reason, line |-> 0, got |-> 0]

\* a Reader that accepts records of any field count (FieldsPerRecord < 0)
csvRead_anyFieldCount(lines, p, fpr) ==
    IF p >= Len(lines)
    THEN [line |-> Malformed, err |-> EOF, pos |-> p, fieldsPerRecord |-> fpr]
    ELSE
      LET l == lines[p + 1] IN
      IF ~l.ok
      THEN [line |-> Malformed, err |-> ParseError(p + 1), pos |-> p + 1,
            fieldsPerRecord |-> fpr]
      ELSE [line |-> l, err |-> NoErr, pos |-> p + 1, fieldsPerRecord |-> fpr]

\* csv.Reader.Read with the default FieldsPerRecord = 0: the first record read
\* fixes the field count every later record must have.
csvRead(lines, p, fpr) ==
    IF p >= Len(lines)
    THEN [line |-> Malformed, err |-> EOF, pos |-> p, fieldsPerRecord |-> fpr]
    ELSE
      LET l == lines[p + 1] IN
      IF ~l.ok
      THEN [line |-> Malformed, err |-> ParseError(p + 1), pos |-> p + 1,
            fieldsPerRecord |-> fpr]
      ELSE IF fpr = 0
      THEN [line |-> l, err |-> NoErr, pos |-> p + 1, fieldsPerRecord |-> l.n]
      ELSE IF l.n # fpr
      THEN [line |-> l, err |-> ErrFieldCount(p + 1), pos |-> p + 1,
            fieldsPerRecord |-> fpr]
      ELSE [line |-> l, err |-> NoErr, pos |-> p + 1, fieldsPerRecord |-> fpr]

(***************************************************************************)
(* CustomerImporter.ImportDomainData                                       *)
(***************************************************************************)
EmptyMap == [d \in {} |-> 0]

NilResult == [nil |-> TRUE, data |-> <<>>]

MapGet(d, k) == IF k \in DOMAIN d THEN d[k] ELSE 0

\* data[domain] = 1
Increment_assignOne(d, k) ==
    [x \in (DOMAIN d) \cup {k} |-> IF x = k THEN 1 ELSE d[x]]

\* data[domain] += 1
Increment(d, k) ==
    [x \in (DOMAIN d) \cup {k} |-> IF x = k THEN MapGet(d, k) + 1 ELSE d[x]]

DomainData(k, v) == [Domain |-> k, CustomerQuantity |-> v]

cmpDomain(l, r) == Compare(l.Domain, r.Domain)

RECURSIVE InsertSorted(_, _)
InsertSorted(x, s) ==
    IF s = <<>> THEN <<x>>
    ELSE IF cmpDomain(x, Head(s)) < 0 THEN <<x>> \o s
    ELSE <<Head(s)>> \o InsertSorted(x, Tail(s))

\* the slice left in the order the map was ranged over
SortFunc_unsorted(s) == s

RECURSIVE SortFunc(_)
SortFunc(s) ==
    IF s = <<>> THEN <<>> ELSE InsertSorted(Head(s), SortFunc(Tail(s)))

\* the orders in which `for k, v := range data` may visit the keys
RangeOrders(d) ==
    { o \in [1..Cardinality(DOMAIN d) -> DOMAIN d] :
        \A i, j \in DOMAIN o : i # j => o[i] # o[j] }

Collect(d, o) == [i \in DOMAIN o |-> DomainData(o[i], d[o[i]])]

\* a return after `defer file.Close()` was registered
Return(res, e) ==
    /\ result' = res
    /\ err' = e
    /\ pc' = "done"
    /\ fileOpen' = FALSE

\* an error return that leaves the handle open
Abort_noClose(e) ==
    /\ result' = NilResult
    /\ err' = e
    /\ pc' = "done"
    /\ UNCHANGED fileOpen

Abort(e) == Return(NilResult, e)

\* the read loop skipping a row whose email is invalid
RowStep_skipInvalidEmail(r, d) ==
    IF r.err # NoErr
    THEN [abort |-> TRUE, err |-> r.err, data |-> d, counted |-> FALSE]
    ELSE IF r.line.n <= emailColumnIndex
    THEN [abort |-> TRUE, err |-> InsufficientColumns(r.line.n), data |-> d,
          counted |-> TRUE]
    ELSE
      LET v == validateEmail(r.line.email) IN
      IF v.err # "nil"
      THEN [abort |-> FALSE, err |-> NoErr, data |-> d, counted |-> TRUE]
      ELSE [abort |-> FALSE, err |-> NoErr, data |-> Increment(d, v.domain),
            counted |-> TRUE]

\* the read loop going on to the next record after a read error
RowStep_skipReadError(r, d) ==
    IF r.err # NoErr
    THEN [abort |-> FALSE, err |-> NoErr, data |-> d, counted |-> FALSE]
    ELSE IF r.line.n <= emailColumnIndex
    THEN [abort |-> TRUE, err |-> InsufficientColumns(r.line.n), data |-> d,
          counted |-> TRUE]
    ELSE
      LET v == validateEmail(r.line.email) IN
      IF v.err # "nil"
      THEN [abort |-> TRUE, err |-> InvalidEmail(v.err), data |-> d,
            counted |-> TRUE]
      ELSE [abort |-> FALSE, err |-> NoErr, data |-> Increment(d, v.domain),
            counted |-> TRUE]

\* one iteration of the read loop on the record r that Read returned
RowStep(r, d) ==
    IF r.err # NoErr
    THEN [abort |-> TRUE, err |-> r.err, data |-> d, counted |-> FALSE]
    ELSE IF r.line.n <= emailColumnIndex
    THEN [abort |-> TRUE, err |-> InsufficientColumns(r.line.n), data |-> d,
          counted |-> TRUE]
    ELSE
      LET v == validateEmail(r.line.email) IN
      IF v.err # "nil"
      THEN [abort |-> TRUE, err |-> InvalidEmail(v.err), data |-> d,
            counted |-> TRUE]
      ELSE [abort |-> FALSE, err |-> NoErr, data |-> Increment(d, v.domain),
            counted |-> TRUE]

Open ==
    /\ pc = "start"
    /\ IF file.exists
       THEN /\ fileOpen' = TRUE
            /\ pc' = "header"
            /\ UNCHANGED <<result, err>>
       ELSE /\ result' = NilResult
            /\ err' = PathError
            /\ pc' = "done"
            /\ UNCHANGED fileOpen
    /\ pos' = 0
    /\ fieldsPerRecord' = 0
    /\ data' = EmptyMap
    /\ UNCHANGED <<file, rowCount, prev>>
    /\ UNCHANGED validateVars
    /\ UNCHANGED cliVars

\* the header record not skipped but handled as the first customer row
ReadHeader_asDataRow ==
    /\ pc = "header"
    /\ LET r == csvRead(file.lines, pos, fieldsPerRecord) IN
       /\ pos' = r.pos
       /\ fieldsPerRecord' = r.fieldsPerRecord
       /\ LET step == RowStep(r, data) IN
          /\ data' = step.data
          /\ IF step.abort
             THEN Abort(step.err) /\ UNCHANGED rowCount
             ELSE /\ pc' = "loop"
                  /\ rowCount' = 0
                  /\ UNCHANGED <<result, err, fileOpen>>
    /\ UNCHANGED <<file, prev>>
    /\ UNCHANGED validateVars
    /\ UNCHANGED cliVars

\* the header read with its error dropped: _, _ = csvReader.Read()
ReadHeader_errorIgnored ==
    /\ pc = "header"
    /\ LET r == csvRead(file.lines, pos, fieldsPerRecord) IN
       /\ pos' = r.pos
       /\ fieldsPerRecord' = r.fieldsPerRecord
    /\ pc' = "loop"
    /\ rowCount' = 0
    /\ UNCHANGED <<result, err, fileOpen>>
    /\ UNCHANGED <<file, data, prev>>
    /\ UNCHANGED validateVars
    /\ UNCHANGED cliVars

ReadHeader ==
    /\ pc = "header"
    /\ LET r == csvRead(file.lines, pos, fieldsPerRecord) IN
       /\ pos' = r.pos
       /\ fieldsPerRecord' = r.fieldsPerRecord
       /\ IF r.err # NoErr
          THEN Abort(r.err) /\ UNCHANGED rowCount
          ELSE /\ pc' = "loop"
               /\ rowCount' = 0
               /\ UNCHANGED <<result, err, fileOpen>>
    /\ UNCHANGED <<file, data, prev>>
    /\ UNCHANGED validateVars
    /\ UNCHANGED cliVars

ReadRow ==
    /\ pc = "loop"
    /\ LET r == csvRead(file.lines, pos, fieldsPerRecord) IN
       /\ r.err # EOF
       /\ pos' = r.pos
       /\ fieldsPerRecord' = r.fieldsPerRecord
       /\ LET step == RowStep(r, data) IN
          /\ data' = step.data
          /\ rowCount' = IF step.counted THEN rowCount + 1 ELSE rowCount
          /\ IF step.abort
             THEN Abort(step.err)
             ELSE UNCHANGED <<result, err, fileOpen, pc>>
    /\ UNCHANGED <<file, prev>>
    /\ UNCHANGED validateVars
    /\ UNCHANGED cliVars

Finish ==
    /\ pc = "loop"
    /\ csvRead(file.lines, pos, fieldsPerRecord).err = EOF
    /\ \E o \in RangeOrders(data) :
          Return([nil |-> FALSE, data |-> SortFunc(Collect(data, o))], NoErr)
    /\ UNCHANGED <<file, pos, fieldsPerRecord, data, rowCount, prev>>
    /\ UNCHANGED validateVars
    /\ UNCHANGED cliVars

Absent == [exists |-> FALSE, lines |-> <<>>]

NoOut ==
    [given |-> FALSE, creatable |-> FALSE, writable |-> FALSE,
     before |-> Absent]

\* main has not run: no flag read, nothing written, no exit status
CliIdle ==
    /\ out = NoOut
    /\ outFile = Absent
    /\ stdout = <<>>
    /\ saveErr = "nil"
    /\ exitCode = -1

NoPrev == [set |-> FALSE, result |-> NilResult, err |-> NoErr,
           header |-> Malformed]

\* the harness writes a file that differs from the one just imported in its
\* first record only, and calls ImportDomainData on the same importer again
writeTestCSV ==
    /\ pc = "done"
    /\ ~prev.set
    /\ file.exists
    /\ Len(file.lines) >= 1
    /\ file.lines[1].ok
    /\ \E h \in HeaderSamples \ {file.lines[1]} :
          file' = [file EXCEPT !.lines[1] = h]
    /\ prev' = [set |-> TRUE, result |-> result, err |-> err,
                header |-> file.lines[1]]
    /\ pc' = "start"
    /\ pos' = 0
    /\ fieldsPerRecord' = 0
    /\ data' = EmptyMap
    /\ rowCount' = 0
    /\ result' = NilResult
    /\ err' = NoErr
    /\ UNCHANGED fileOpen
    /\ UNCHANGED validateVars
    /\ UNCHANGED cliVars

Init ==
    /\ file \in Files
    /\ fileOpen = FALSE
    /\ pos = 0
    /\ fieldsPerRecord = 0
    /\ data = EmptyMap
    /\ rowCount = 0
    /\ pc = "start"
    /\ result = NilResult
    /\ err = NoErr
    /\ prev = NoPrev
    /\ email = <<>>
    /\ vout = ValidateFail("")
    /\ vpc = "idle"
    /\ CliIdle

Next ==
    \/ Open
    \/ ReadHeader
    \/ ReadRow
    \/ Finish
    \/ writeTestCSV

Spec == Init /\ [][Next]_vars

(***************************************************************************)
(* A direct call of validateEmail, as TestValidateEmail makes              *)
(***************************************************************************)
CallValidateEmail ==
    /\ vpc = "call"
    /\ vout' = validateEmail(email)
    /\ vpc' = "returned"
    /\ UNCHANGED email
    /\ UNCHANGED importVars
    /\ UNCHANGED cliVars

InitValidate ==
    /\ email \in Strings(MaxEmailLen)
    /\ vout = ValidateFail("")
    /\ vpc = "call"
    /\ file = [exists |-> FALSE, lines |-> <<>>]
    /\ fileOpen = FALSE
    /\ pos = 0
    /\ fieldsPerRecord = 0
    /\ data = EmptyMap
    /\ rowCount = 0
    /\ pc = "start"
    /\ result = NilResult
    /\ err = NoErr
    /\ prev = NoPrev
    /\ CliIdle

NextValidate == CallValidateEmail

SpecValidate == InitValidate /\ [][NextValidate]_vars

(***************************************************************************)
(* CustomerExporter.ExportData, printData and main                         *)
(***************************************************************************)
Digit(d) ==
    CASE d = 0 -> "0" [] d = 1 -> "1" [] d = 2 -> "2" [] d = 3 -> "3"
      [] d = 4 -> "4" [] d = 5 -> "5" [] d = 6 -> "6" [] d = 7 -> "7"
      [] d = 8 -> "8" [] d = 9 -> "9"

\* strconv.FormatUint(v, 10), and %v of a uint64
RECURSIVE FormatUint(_)
FormatUint(v) ==
    IF v < 10 THEN <<Digit(v)>>
    ELSE FormatUint(v \div 10) \o <<Digit(v % 10)>>

ExportHeaders == << <<"domain">>, <<"number_of_customers">> >>

\* the records exportCsv hands to csvWriter.Write, in order
csvRecords(d) ==
    <<ExportHeaders>> \o
    [i \in 1..Len(d) |-> <<d[i].Domain, FormatUint(d[i].CustomerQuantity)>>]

\* exportCsv on a file whose writes succeed (sinkOk) or fail.  csv.Writer
\* buffers 4096 bytes and the reports of this model are far shorter, so
\* every Write only fills the buffer, csvWriter.Error() is asked before
\* anything was written, and the deferred Flush, whose error nobody reads,
\* does the writing after the return value is fixed.
exportCsv(d, sinkOk) ==
    [err |-> "nil", written |-> IF sinkOk THEN csvRecords(d) ELSE <<>>]

ErrNilData == "provided data is empty (nil)"

ErrCreate == "failed to create output file"

\* ExportData refusing a slice without elements as well
ExportData_rejectsEmpty(res, o, f) ==
    IF res.nil \/ res.data = <<>> THEN [err |-> ErrNilData, file |-> f]
    ELSE IF ~o.creatable THEN [err |-> ErrCreate, file |-> f]
    ELSE
      LET w == exportCsv(res.data, o.writable) IN
      [err |-> w.err, file |-> [exists |-> TRUE, lines |-> w.written]]

\* ExportData(data) on the path described by o, where the file f is stored
ExportData(res, o, f) ==
    IF res.nil THEN [err |-> ErrNilData, file |-> f]
    ELSE IF ~o.creatable THEN [err |-> ErrCreate, file |-> f]
    ELSE
      LET w == exportCsv(res.data, o.writable) IN
      [err |-> w.err, file |-> [exists |-> TRUE, lines |-> w.written]]

PrintHeader == <<"domain,number_of_customers">>

printData(d) ==
    <<PrintHeader>> \o
    [i \in 1..Len(d) |->
        d[i].Domain \o <<",">> \o FormatUint(d[i].CustomerQuantity)]

\* main: ImportDomainData returned an error
mainImportFailed ==
    /\ pc = "done"
    /\ err # NoErr
    /\ exitCode' = 1
    /\ pc' = "exited"
    /\ UNCHANGED <<out, outFile, stdout, saveErr>>
    /\ UNCHANGED <<file, fileOpen, pos, fieldsPerRecord, data, rowCount,
                   result, err, prev>>
    /\ UNCHANGED validateVars

\* main: no -out flag, the report goes to standard output
mainPrintData ==
    /\ pc = "done"
    /\ err = NoErr
    /\ ~out.given
    /\ stdout' = stdout \o printData(result.data)
    /\ exitCode' = 0
    /\ pc' = "exited"
    /\ UNCHANGED <<out, outFile, saveErr>>
    /\ UNCHANGED <<file, fileOpen, pos, fieldsPerRecord, data, rowCount,
                   result, err, prev>>
    /\ UNCHANGED validateVars

\* main: -out given, the report goes through ExportData
mainExportData ==
    /\ pc = "done"
    /\ err = NoErr
    /\ out.given
    /\ LET e == ExportData(result, out, outFile) IN
       /\ outFile' = e.file
       /\ saveErr' = e.err
       /\ exitCode' = IF e.err # "nil" THEN 1 ELSE 0
    /\ pc' = "exited"
    /\ UNCHANGED <<out, stdout>>
    /\ UNCHANGED <<file, fileOpen, pos, fieldsPerRecord, data, rowCount,
                   result, err, prev>>
    /\ UNCHANGED validateVars

OldReport == [exists |-> TRUE, lines |-> << <<"old">> >>]

\* no -out flag, or a path that can be created and written, created but not
\* written (a full device), or not created at all
OutOptions ==
    {NoOut}
    \cup
    { [given |-> TRUE, creatable |-> cw[1], writable |-> cw[2], before |-> b] :
        cw \in {<<TRUE, TRUE>>, <<TRUE, FALSE>>, <<FALSE, FALSE>>},
        b \in {Absent, OldReport} }

MainRowSeqs == UNION { [1..k -> Lines] : k \in 0..MaxMainRows }

MainFiles ==
    { Absent, [exists |-> TRUE, lines |-> <<>>] }
    \cup
    { [exists |-> TRUE, lines |-> <<h>> \o rows] :
        h \in HeaderSamples \cup {Malformed}, rows \in MainRowSeqs }

InitMain ==
    /\ file \in MainFiles
    /\ out \in OutOptions
    /\ outFile = out.before
    /\ stdout = <<>>
    /\ saveErr = "nil"
    /\ exitCode = -1
    /\ fileOpen = FALSE
    /\ pos = 0
    /\ fieldsPerRecord = 0
    /\ data = EmptyMap
    /\ rowCount = 0
    /\ pc = "start"
    /\ result = NilResult
    /\ err = NoErr
    /\ prev = NoPrev
    /\ email = <<>>
    /\ vout = ValidateFail("")
    /\ vpc = "idle"

NextMain ==
    \/ Open
    \/ ReadHeader
    \/ ReadRow
    \/ Finish
    \/ mainImportFailed
    \/ mainPrintData
    \/ mainExportData

SpecMain == InitMain /\ [][NextMain]_vars

(***************************************************************************)
(* Vocabulary of the properties                                            *)
(***************************************************************************)
Done == pc = "done"

HeaderRead == file.exists /\ Len(file.lines) >= 1 /\ file.lines[1].ok

DataRowIndexes == 2..Len(file.lines)

\* a data row that is malformed, has too few columns or an invalid email
RowBad(l) ==
    \/ ~l.ok
    \/ l.n <= emailColumnIndex
    \/ validateEmail(l.email).err # "nil"

\* a data row the reader and the validator accept under the file's header
RowAccepted(l) == ~RowBad(l) /\ l.n = file.lines[1].n

RECURSIVE SumQuantity(_)
SumQuantity(s) ==
    IF s = <<>> THEN 0 ELSE Head(s).CustomerQuantity + SumQuantity(Tail(s))

Min(a, b) == IF a < b THEN a ELSE b

\* a is before b in byte-wise lexicographic order
LexLess(a, b) ==
    \E k \in 0..Min(Len(a), Len(b)) :
        /\ \A i \in 1..k : a[i] = b[i]
        /\ \/ k = Len(a) /\ k < Len(b)
           \/ k < Len(a) /\ k < Len(b) /\ Code(a[k + 1]) < Code(b[k + 1])

CountAt(s) == Cardinality({ i \in 1..Len(s) : s[i] = "@" })

FirstAt(s) == CHOOSE i \in 1..Len(s) : s[i] = "@" /\ \A j \in 1..(i - 1) : s[j] # "@"

LocalPart(s) == SubSeq(TrimSpace(s), 1, FirstAt(TrimSpace(s)) - 1)

DomainPart(s) ==
    SubSeq(TrimSpace(s), FirstAt(TrimSpace(s)) + 1, Len(TrimSpace(s)))

(***************************************************************************)
(* Properties of ImportDomainData (under Spec)                             *)
(***************************************************************************)

\* C1: all-or-nothing. If any data row of the source is malformed, has too
\* few columns or carries an email validateEmail rejects, wherever it is, the
\* call returns an error and a nil result.
C1_AllOrNothing ==
    (Done /\ file.exists /\ \E i \in DataRowIndexes : RowBad(file.lines[i]))
        => (err # NoErr /\ result = NilResult)

\* two valid rows were counted, the third row carries an invalid email
C1_Witness ==
    /\ Done
    /\ HeaderRead
    /\ Len(file.lines) = 4
    /\ RowAccepted(file.lines[2])
    /\ RowAccepted(file.lines[3])
    /\ file.lines[4].ok /\ RowBad(file.lines[4])
    /\ rowCount = 3
    /\ DOMAIN data # {}
    /\ err.kind = "InvalidEmail"
    /\ result = NilResult

\* C2: for a well-formed source (readable header, every data row accepted)
\* the call succeeds and the CustomerQuantity values of the returned pairs
\* add up to the number of data rows, the header not counted.
C2_SumEqualsRows ==
    (Done /\ HeaderRead /\ \A i \in DataRowIndexes : RowAccepted(file.lines[i]))
        => /\ err = NoErr
           /\ ~result.nil
           /\ SumQuantity(result.data) = Len(file.lines) - 1

\* three rows, two of them of the same domain
C2_Witness ==
    /\ Done
    /\ err = NoErr
    /\ Len(file.lines) = 4
    /\ Len(result.data) = 2
    /\ \E i \in 1..2 : result.data[i].CustomerQuantity = 2

\* C3: the returned sequence is strictly ascending in byte-wise
\* lexicographic order of Domain (so no domain occurs twice), whatever order
\* the accumulation map was ranged over.
C3_StrictlyAscending ==
    (Done /\ err = NoErr)
        => \A i \in 1..(Len(result.data) - 1) :
              LexLess(result.data[i].Domain, result.data[i + 1].Domain)

\* three domains whose rows stand in descending order in the source
C3_Witness ==
    /\ Done
    /\ err = NoErr
    /\ Len(result.data) = 3
    /\ Len(file.lines) = 4
    /\ validateEmail(file.lines[2].email).domain = result.data[3].Domain
    /\ validateEmail(file.lines[3].email).domain = result.data[2].Domain
    /\ validateEmail(file.lines[4].email).domain = result.data[1].Domain

\* the data row the reader consumed last, when it consumed one
LastRow == file.lines[pos]

MetDataRow == Done /\ HeaderRead /\ pos >= 2

\* C6 as stated: a data row of at most emailColumnIndex fields always aborts
\* the call with the InsufficientColumns error, whatever the header's field
\* count.
C6_ShortRowInsufficientColumns ==
    (MetDataRow /\ LastRow.ok /\ LastRow.n <= emailColumnIndex)
        => err = InsufficientColumns(LastRow.n)

\* C6 amended: such a row aborts the call with InsufficientColumns when its
\* field count equals the header's, and with the csv reader's "wrong number
\* of fields" error when it differs.
C6_ShortRowError ==
    (MetDataRow /\ LastRow.ok /\ LastRow.n <= emailColumnIndex)
        => /\ result = NilResult
           /\ err = IF LastRow.n = file.lines[1].n
                    THEN InsufficientColumns(LastRow.n)
                    ELSE ErrFieldCount(pos)

\* a two-field row under a two-field header
C6_Witness ==
    /\ MetDataRow
    /\ LastRow.ok
    /\ LastRow.n = 2
    /\ file.lines[1].n = 2
    /\ err = InsufficientColumns(2)

\* C7 as stated: two sources with the same data rows that differ only in
\* their header record, its field count included, have the same outcome.
C7_HeaderNeverInspected ==
    (Done /\ prev.set) => (result = prev.result /\ err = prev.err)

\* C7 amended: the outcome is the same when the two readable headers have
\* the same number of fields; a data row whose field count differs from the
\* header's fails the call with "wrong number of fields", also when it has
\* 3 or more fields.
C7_HeaderFieldCountOnly ==
    /\ (Done /\ prev.set /\ prev.header.n = file.lines[1].n)
          => (result = prev.result /\ err = prev.err)
    /\ (MetDataRow /\ LastRow.ok /\ LastRow.n # file.lines[1].n)
          => (result = NilResult /\ err = ErrFieldCount(pos))

\* the same rows imported under two different headers of the same field count
C7_Witness ==
    /\ Done
    /\ prev.set
    /\ prev.header.n = file.lines[1].n
    /\ prev.header # file.lines[1]
    /\ err = NoErr
    /\ Len(result.data) >= 2
    /\ result = prev.result

\* a data row the call cannot get past: not parsed, not of the header's field
\* count, too short, or with an invalid email
RowFails(i) ==
    \/ ~file.lines[i].ok
    \/ file.lines[i].n # file.lines[1].n
    \/ RowBad(file.lines[i])

RowError(i) ==
    LET l == file.lines[i] IN
    IF ~l.ok THEN ParseError(i)
    ELSE IF l.n # file.lines[1].n THEN ErrFieldCount(i)
    ELSE IF l.n <= emailColumnIndex THEN InsufficientColumns(l.n)
    ELSE InvalidEmail(validateEmail(l.email).err)

FirstFailing ==
    CHOOSE i \in DataRowIndexes :
        RowFails(i) /\ \A j \in 2..(i - 1) : ~RowFails(j)

Counted(d) == SumQuantity(Collect(d, CHOOSE o \in RangeOrders(d) : TRUE))

\* C8: rows are processed in source order and the call stops at the first
\* failing one: the error is that of the earliest failing row, the reader has
\* consumed nothing after it, and only the rows before it were counted.
C8_FailFast ==
    (Done /\ HeaderRead /\ \E i \in DataRowIndexes : RowFails(i))
        => /\ pos = FirstFailing
           /\ err = RowError(FirstFailing)
           /\ result = NilResult
           /\ Counted(data) = FirstFailing - 2
           /\ rowCount <= FirstFailing - 1

\* a valid row, then two rows that fail in different ways
C8_Witness ==
    /\ Done
    /\ HeaderRead
    /\ Len(file.lines) = 4
    /\ ~RowFails(2)
    /\ RowFails(3)
    /\ RowFails(4)
    /\ RowError(3).kind # RowError(4).kind
    /\ err = RowError(3)
    /\ pos = 3

\* C9: whenever the call returns the handle is closed (it was never opened
\* when os.Open failed), and the reader consumes a record only while the
\* handle is open.
C9_HandleClosedOnReturn ==
    [][/\ pc' = "done" => ~fileOpen'
       /\ pos' > pos => fileOpen]_vars

\* the call returned from inside the read loop, on an invalid email
C9_Witness ==
    /\ Done
    /\ pos >= 3
    /\ err.kind = "InvalidEmail"
    /\ ~fileOpen

\* C11: when the source cannot be opened, or opens but yields no header
\* record (an empty file), the call returns an error and a nil result, and
\* no data row was read, validated or counted.
C11_NoSourceNoRows ==
    (Done /\ (~file.exists \/ file.lines = <<>>))
        => /\ err = (IF file.exists THEN EOF ELSE PathError)
           /\ result = NilResult
           /\ pos = 0
           /\ rowCount = 0
           /\ data = EmptyMap

\* an empty file was opened and the header read met the end of input
C11_Witness ==
    /\ Done
    /\ file.exists
    /\ file.lines = <<>>
    /\ err = EOF
    /\ ~fileOpen

(***************************************************************************)
(* Properties of validateEmail (under SpecValidate)                        *)
(***************************************************************************)
Returned == vpc = "returned"

C5_InvalidRejected ==
    (/\ Returned
     /\ \/ CountAt(email) = 0
        \/ CountAt(email) >= 2
        \/ TrimSpace(LocalPart(email)) = <<>>
        \/ TrimSpace(DomainPart(email)) = <<>>)
        => (vout.err # "nil" /\ vout.domain = <<>>)

\* two '@' with non-empty parts around them
C5_Witness ==
    /\ Returned
    /\ email = <<"a", "@", "B", "@", "a">>
    /\ vout = ValidateFail(ErrMultipleSeparators)

\* C10: a domain validateEmail returns contains no whitespace character.
C10_DomainWithoutWhitespace ==
    (Returned /\ vout.err = "nil")
        => \A i \in 1..Len(vout.domain) : ~IsSpace(vout.domain[i])

\* the first failing step in the order EmptyInput, MissingSeparator,
\* EmptyLocalPart, EmptyDomain, MultipleSeparators; "nil" when none fails
FirstFailingStep(s) ==
    IF TrimSpace(s) = <<>> THEN ErrEmptyInput
    ELSE IF CountAt(s) = 0 THEN ErrMissingSeparator
    ELSE IF TrimSpace(LocalPart(s)) = <<>> THEN ErrEmptyLocalPart
    ELSE IF TrimSpace(DomainPart(s)) = <<>> THEN ErrEmptyDomain
    ELSE IF CountAt(s) >= 2 THEN ErrMultipleSeparators
    ELSE "nil"

\* C13: a rejected input gets the error of the first failing step in the
\* order EmptyInput, MissingSeparator, EmptyLocalPart, EmptyDomain,
\* MultipleSeparators: empty and whitespace-only input give EmptyInput, "@"
\* and " @a" give EmptyLocalPart, "a@ " gives EmptyDomain, and
\* MultipleSeparators is given only when the local part and the trimmed
\* domain part are both non-empty.
C13_FirstFailingStepReported ==
    Returned =>
        /\ vout.err = FirstFailingStep(email)
        /\ (email = <<>> \/ email = <<" ", " ", " ">>)
              => vout.err = ErrEmptyInput
        /\ (email = <<"@">> \/ email = <<" ", "@", "a">>)
              => vout.err = ErrEmptyLocalPart
        /\ email = <<"a", "@", " ">> => vout.err = ErrEmptyDomain
        /\ vout.err = ErrMultipleSeparators
              => /\ TrimSpace(LocalPart(email)) # <<>>
                 /\ TrimSpace(DomainPart(email)) # <<>>

\* a whitespace-only local part with a second '@' after the first
C13_Witness ==
    /\ Returned
    /\ email = <<" ", "@", "@", "a">>
    /\ vout = ValidateFail(ErrEmptyLocalPart)

(***************************************************************************)
(* Properties of main and ExportData (under SpecMain)                      *)
(***************************************************************************)
Exited == pc = "exited"

\* the report in the -out file is the one ExportData was given
Exported == outFile = [exists |-> TRUE, lines |-> csvRecords(result.data)]

\* after a failed import: status 1, nothing on stdout, -out file untouched
NoReportAfterFailedImport ==
    (Exited /\ err # NoErr)
        => (exitCode = 1 /\ stdout = <<>> /\ outFile = out.before)

\* status 0 only when no call returned an error
StatusZeroOnlyWithoutError ==
    (Exited /\ exitCode = 0)
        => (err = NoErr /\ (out.given => saveErr = "nil"))

\* C12: the report is emitted only after a successful import: after an
\* import error the process exits with status 1, stdout holds nothing and
\* the -out file is as it was; the process exits with status 0 only when the
\* import succeeded and, if -out is given, the export succeeded, that is, the
\* -out file holds the report.
C12_ReportOnlyAfterSuccess ==
    /\ NoReportAfterFailedImport
    /\ (Exited /\ exitCode = 0)
          => (err = NoErr /\ (out.given => Exported))

\* C14: for a source with a readable header and no data rows the import
\* succeeds with an empty sequence that is not nil; ExportData does not
\* reject it and, on a path it can create and write, leaves a report that
\* consists of the header line alone.
C14_HeaderOnlySource ==
    (HeaderRead /\ Len(file.lines) = 1)
        => /\ (Done \/ Exited)
                => (err = NoErr /\ result = [nil |-> FALSE, data |-> <<>>])
           /\ (Exited /\ out.given) => saveErr # ErrNilData
           /\ (Exited /\ out.given /\ out.creatable /\ out.writable)
                => /\ saveErr = "nil"
                   /\ exitCode = 0
                   /\ outFile = [exists |-> TRUE, lines |-> <<ExportHeaders>>]

\* the header-only report replaced an older file at the -out path
C14_Witness ==
    /\ Exited
    /\ HeaderRead
    /\ Len(file.lines) = 1
    /\ result = [nil |-> FALSE, data |-> <<>>]
    /\ out.given
    /\ out.before = OldReport
    /\ saveErr = "nil"
    /\ outFile = [exists |-> TRUE, lines |-> <<ExportHeaders>>]

====
